---- MODULE Spec2Model ----
(***************************************************************************)
(* A model of pymalgamate.py: the amalgamation of one Python package into  *)
(* a single file.  A run is the body of main(): the dependency scan of     *)
(* every discovered module, topo_sort, the gathering pass over the         *)
(* rewritten modules in sorted order and the writing of the output file.   *)
(*                                                                         *)
(* Text (dotted module names, rendered import statements) is a sequence of *)
(* one-character strings, so that str.startswith, slicing and the          *)
(* comparison used by sorted() are computed as Python computes them.       *)
(***************************************************************************)
EXTENDS Integers, Sequences, FiniteSets, TLC

VARIABLES
    module_map,        \* the discovered modules in discovery order: <<[name, body]>>
    seed,              \* the hash seed of the running process (orders set iteration)
    run,               \* 1 for the first run over the tree, 2 for a repeated run
    prev,              \* what the previous run over the same tree left behind
    pc,                \* the position of main()
    idx,               \* the position of the loop main() is in
    deps,              \* main's deps: module name -> set of module names
    deps_copy,         \* topo_sort's mutable copy of deps
    ready,             \* topo_sort's worklist
    order,             \* topo_sort's result so far
    sorted_names,      \* the emission order topo_sort returned
    external_imports,  \* set of rendered external import statements
    global_stmts,      \* hoisted assignments, in order of appearance
    collected_stmts,   \* the remaining statements, in order of appearance
    seen_defs,         \* names already bound by a kept definition
    opened,            \* whether open(args.out_file, "w") has happened
    out,               \* what has been written to the output file
    err                \* the exception that ended the run, "" if none

vars == <<module_map, seed, run, prev, pc, idx, deps, deps_copy, ready, order,
          sorted_names, external_imports, global_stmts, collected_stmts,
          seen_defs, opened, out, err>>

\* ------------------------------------------------------------------ bounds

\* The largest number of top-level statements in the whole module tree, for
\* trees over four statement shapes and for trees over more.
MaxStmts == 4

MaxStmtsWide == 3

\* The largest number of modules discovery finds.
MaxModules == 2

\* The largest number of modules, and of import statements in all of them,
\* in the trees that exercise topo_sort alone.
MaxGraphModules == 3

MaxGraphImports == 4

\* The largest number of dependencies of one module in the mappings topo_sort
\* is called with on its own.
MaxSortDeps == 2

\* ------------------------------------------------------------------ text

\* The characters of the model's texts in code point order (str comparison
\* compares code points).
Alphabet ==
    <<" ", ",", ".", "a", "b", "c", "d", "e", "f", "g", "h", "i", "k", "l", "m",
      "o", "p", "r", "s", "t", "u", "x">>

Code(ch) == CHOOSE k \in 1..Len(Alphabet) : Alphabet[k] = ch

Min(x, y) == IF x <= y THEN x ELSE y

\* s < t for two Python strings.
StrLess(s, t) ==
    \E k \in 1..(Min(Len(s), Len(t)) + 1) :
        /\ \A j \in 1..(k - 1) : s[j] = t[j]
        /\ \/ k > Len(s) /\ k <= Len(t)
           \/ k <= Len(s) /\ k <= Len(t) /\ Code(s[k]) < Code(t[k])

\* s.startswith(p)
StartsWith(s, p) == Len(s) >= Len(p) /\ SubSeq(s, 1, Len(p)) = p

\* s[n:]
DropFirst(s, n) == SubSeq(s, n + 1, Len(s))

RECURSIVE Join(_, _)
\* sep.join(parts)
Join(parts, sep) ==
    IF parts = <<>> THEN <<>>
    ELSE IF Len(parts) = 1 THEN parts[1]
    ELSE parts[1] \o sep \o Join(Tail(parts), sep)

RECURSIVE Spaces(_)
Spaces(n) == IF n = 0 THEN <<>> ELSE <<" ">> \o Spaces(n - 1)

RECURSIVE Dots(_)
Dots(n) == IF n = 0 THEN <<>> ELSE <<".">> \o Dots(n - 1)

\* ------------------------------------------------------- the package's names

\* args.pkg_name
pkg_name == <<"p", "k", "g">>

\* The names discovery gives the modules, in discovery order.
ModNames == << <<"a">>, <<"b">>, <<"c">>, <<"d">> >>

\* ------------------------------------------------------- syntax trees

(* A top-level statement (or a statement nested in a definition) is a record:
     kind   "import" | "from" | "def" | "class" | "assign" | "annassign" | "expr"
     names  import: the aliases' names; from: the imported names
     mod    from: the module, <<>> when there is none
            (a name is the sequence of the identifiers of a Name/Attribute
            chain: `pkg.b` is << <<"p", "k", "g">>, <<"b">> >>)
     rel    from: the number of leading dots
     sp     import/from: the number of spaces after the first keyword
     name   def/class: the defined name; assign/annassign: the target
     target assign/annassign: "name" for a bare name, "attr" for anything else
     uses   the names the statement reads when the module is loaded
     inner  def/class: the statements of its body that are imports          *)
Stmt(kind, names, mod, rel, sp, name, target, uses, inner) ==
    [kind |-> kind, names |-> names, mod |-> mod, rel |-> rel, sp |-> sp,
     name |-> name, target |-> target, uses |-> uses, inner |-> inner]

Import(names, sp) == Stmt("import", names, <<>>, 0, sp, "", "", {}, <<>>)
ImportFrom(rel, mod, names) == Stmt("from", names, mod, rel, 1, "", "", {}, <<>>)
FunctionDef(name, inner) == Stmt("def", <<>>, <<>>, 0, 0, name, "", {}, inner)
ClassDef(name) == Stmt("class", <<>>, <<>>, 0, 0, name, "", {}, <<>>)
Assign(name, uses) == Stmt("assign", <<>>, <<>>, 0, 0, name, "name", uses, <<>>)
AttrAssign(name) == Stmt("assign", <<>>, <<>>, 0, 0, name, "attr", {}, <<>>)
AnnAssign(name) == Stmt("annassign", <<>>, <<>>, 0, 0, name, "name", {}, <<>>)
AnnAttrAssign(name) == Stmt("annassign", <<>>, <<>>, 0, 0, name, "attr", {}, <<>>)
Expr(uses) == Stmt("expr", <<>>, <<>>, 0, 0, "", "", uses, <<>>)

\* A piece of source text that is not Python: cst.parse_module raises on a
\* module that holds it.
NotPython == Stmt("error", <<>>, <<>>, 0, 0, "", "", {}, <<>>)

IsImport(s) == s.kind \in {"import", "from"}

\* parses with every source taken for Python
parses_always(body) == TRUE

\* Whether cst.parse_module(src) returns for the source of a module (it
\* raises ParserSyntaxError otherwise).
parses(body) == \A k \in 1..Len(body) : body[k].kind # "error"

\* The exception cst.parse_module raises.
ParserSyntaxError == "ParserSyntaxError"

\* The dotted name of a Name or Attribute chain; "" when there is no node.
get_module_name(node) == Join(node, <<".">>)

DottedNames(names) == [k \in 1..Len(names) |-> get_module_name(names[k])]

\* cst.Module([]).code_for_node(imp).strip() for an Import or ImportFrom node
code_for_node(s) ==
    IF s.kind = "import"
    THEN <<"i", "m", "p", "o", "r", "t">> \o Spaces(s.sp)
         \o Join(DottedNames(s.names), <<",", " ">>)
    ELSE <<"f", "r", "o", "m">> \o Spaces(s.sp) \o Dots(s.rel) \o Join(s.mod, <<".">>)
         \o <<" ", "i", "m", "p", "o", "r", "t", " ">>
         \o Join(DottedNames(s.names), <<",", " ">>)

\* ------------------------------------------------ IntraPackageImportRemover

\* filtered_aliases with the test for submodules forgotten: only the package
\* itself is dropped.
filtered_aliases_package_only(names) ==
    SelectSeq(names, LAMBDA alias : get_module_name(alias) # pkg_name)

\* The aliases leave_Import keeps.
filtered_aliases(names) ==
    SelectSeq(names, LAMBDA alias :
        ~ (\/ get_module_name(alias) = pkg_name
           \/ StartsWith(get_module_name(alias), pkg_name \o <<".">>)))

\* leave_Import: the statements that replace the node (none: RemoveFromParent).
leave_Import(s) ==
    IF filtered_aliases(s.names) = <<>> THEN <<>>
    ELSE << [s EXCEPT !.names = filtered_aliases(s.names)] >>

\* Whether leave_Import raises: updated_node.with_changes(names=...) builds a
\* new Import node, whose validation rejects a last alias that carries a
\* comma.  Each alias but the last of the parsed statement carries one, so
\* the node is rejected when aliases are kept and the last one is dropped.
leave_Import_raises(s) ==
    /\ s.kind = "import"
    /\ filtered_aliases(s.names) # <<>>
    /\ filtered_aliases(<< s.names[Len(s.names)] >>) = <<>>

\* The exception of libcst's node validation.
CSTValidationError == "CSTValidationError"

\* leave_ImportFrom
leave_ImportFrom(s) ==
    LET module_name == IF s.mod # <<>> THEN get_module_name(s.mod) ELSE <<>>
    IN  IF StartsWith(module_name, pkg_name) \/ s.rel > 0 THEN <<>> ELSE << s >>

leave_small(s) ==
    IF s.kind = "import" THEN leave_Import(s)
    ELSE IF s.kind = "from" THEN leave_ImportFrom(s)
    ELSE << s >>

RECURSIVE visit_block(_)
\* The transformer over the statements of a block.
visit_block(stmts) ==
    IF stmts = <<>> THEN <<>>
    ELSE leave_small(Head(stmts)) \o visit_block(Tail(stmts))

RECURSIVE visit_remover(_)
\* module.visit(remover).body: the transformer reaches every import of the
\* tree, those nested in a definition's body too.
visit_remover(body) ==
    IF body = <<>> THEN <<>>
    ELSE LET s == Head(body)
         IN  (IF IsImport(s) THEN leave_small(s)
              ELSE << [s EXCEPT !.inner = visit_block(s.inner)] >>)
             \o visit_remover(Tail(body))

\* Whether module.visit(remover) raises: some import of the tree, at the top
\* level or in a definition's body, makes leave_Import raise.
remover_raises(body) ==
    \E k \in 1..Len(body) :
        \/ leave_Import_raises(body[k])
        \/ \E j \in 1..Len(body[k].inner) : leave_Import_raises(body[k].inner[j])

\* ------------------------------------------------------------ DepCollector

\* visit_import_deps with the package prefix left on the recorded name
visit_import_deps_unstripped(s) ==
    LET dep_of(node) ==
            IF StartsWith(get_module_name(node), pkg_name \o <<".">>)
            THEN {get_module_name(node)}
            ELSE {}
    IN  IF s.kind = "from"
        THEN (IF s.mod # <<>> THEN dep_of(s.mod) ELSE {})
        ELSE IF s.kind = "import"
        THEN UNION {dep_of(s.names[k]) : k \in 1..Len(s.names)}
        ELSE {}

\* visit_import_deps that also records, for `from <package> import names`,
\* the imported names
visit_import_deps_package_names(s) ==
    LET dep_of(node) ==
            IF StartsWith(get_module_name(node), pkg_name \o <<".">>)
            THEN {DropFirst(get_module_name(node), Len(pkg_name) + 1)}
            ELSE {}
    IN  IF s.kind = "from"
        THEN (IF s.mod = <<>> THEN {}
              ELSE IF get_module_name(s.mod) = pkg_name
              THEN {get_module_name(s.names[k]) : k \in 1..Len(s.names)}
              ELSE dep_of(s.mod))
        ELSE IF s.kind = "import"
        THEN UNION {dep_of(s.names[k]) : k \in 1..Len(s.names)}
        ELSE {}

\* What one visit_ImportFrom / visit_Import adds to collector.deps.
visit_import_deps(s) ==
    LET dep_of(node) ==
            IF StartsWith(get_module_name(node), pkg_name \o <<".">>)
            THEN {DropFirst(get_module_name(node), Len(pkg_name) + 1)}
            ELSE {}
    IN  IF s.kind = "from"
        THEN (IF s.mod # <<>> THEN dep_of(s.mod) ELSE {})
        ELSE IF s.kind = "import"
        THEN UNION {dep_of(s.names[k]) : k \in 1..Len(s.names)}
        ELSE {}

\* collector_deps for a visitor that stops at definitions: only the imports
\* at the top level of the module are visited
collector_deps_shallow(body) ==
    UNION {visit_import_deps(body[k]) : k \in 1..Len(body)}

\* collector.deps after mod.visit(collector): the visitor reaches every
\* import of the tree.
collector_deps(body) ==
    UNION {visit_import_deps(body[k]) \cup
           UNION {visit_import_deps(body[k].inner[j]) : j \in 1..Len(body[k].inner)}
           : k \in 1..Len(body)}

\* ------------------------------------------------------------ sets and dicts

RECURSIVE sorted(_)
\* sorted(S) for a set of strings
sorted(S) ==
    IF S = {} THEN <<>>
    ELSE LET least == CHOOSE x \in S : \A y \in S \ {x} : StrLess(x, y)
         IN  <<least>> \o sorted(S \ {least})

Reverse(s) == [k \in 1..Len(s) |-> s[Len(s) + 1 - k]]

\* The order in which a set of strings is iterated in a process whose hash
\* seed is sd: a function of the seed, the same within one process.
SetIter(S, sd) == IF sd = 0 THEN Reverse(sorted(S)) ELSE sorted(S)

\* list(module_map), the keys in insertion (discovery) order
Keys(mm) == [k \in 1..Len(mm) |-> mm[k].name]

KeySet(mm) == {mm[k].name : k \in 1..Len(mm)}

\* module_map[name], parsed
body_of(mm, name) == mm[CHOOSE k \in 1..Len(mm) : mm[k].name = name].body

RECURSIVE add_deps_unchecked(_, _, _, _)
\* add_deps with the test `dep in module_map` forgotten
add_deps_unchecked(d, mm, mod_name, iter) ==
    IF iter = <<>> THEN d
    ELSE add_deps_unchecked([d EXCEPT ![mod_name] = @ \cup {Head(iter)}],
                            mm, mod_name, Tail(iter))

RECURSIVE add_deps(_, _, _, _)
\* for dep in collector.deps: if dep in module_map: deps[mod_name].add(dep)
add_deps(d, mm, mod_name, iter) ==
    IF iter = <<>> THEN d
    ELSE add_deps(IF Head(iter) \in KeySet(mm)
                  THEN [d EXCEPT ![mod_name] = @ \cup {Head(iter)}]
                  ELSE d,
                  mm, mod_name, Tail(iter))

\* ------------------------------------------------------------ topo_sort

\* initial_ready over a set of the keys, `for u in set(deps_copy)`, in place
\* of the dict's insertion order
initial_ready_set_order(dc, keys) ==
    SelectSeq(SetIter({keys[k] : k \in 1..Len(keys)}, seed), LAMBDA u : dc[u] = {})

\* ready = [u for u, v in deps_copy.items() if not v]
initial_ready(dc, keys) == SelectSeq(keys, LAMBDA u : dc[u] = {})

RECURSIVE release_reversed(_, _, _, _)
\* release over the keys from the last to the first,
\* `for m in reversed(list(deps_copy.keys()))`
release_reversed(keys, u, dc, rd) ==
    IF keys = <<>> THEN [dc |-> dc, rd |-> rd]
    ELSE LET m == keys[Len(keys)]
             rest == SubSeq(keys, 1, Len(keys) - 1)
         IN  IF u \in dc[m]
             THEN release_reversed(rest, u, [dc EXCEPT ![m] = @ \ {u}],
                                   IF dc[m] \ {u} = {} THEN Append(rd, m) ELSE rd)
             ELSE release_reversed(rest, u, dc, rd)

RECURSIVE release_front(_, _, _, _)
\* release with `ready.insert(0, m)` in place of `ready.append(m)`
release_front(keys, u, dc, rd) ==
    IF keys = <<>> THEN [dc |-> dc, rd |-> rd]
    ELSE LET m == Head(keys)
         IN  IF u \in dc[m]
             THEN release_front(Tail(keys), u, [dc EXCEPT ![m] = @ \ {u}],
                                IF dc[m] \ {u} = {} THEN <<m>> \o rd ELSE rd)
             ELSE release_front(Tail(keys), u, dc, rd)

RECURSIVE release_first_dep(_, _, _, _)
\* release with a module made ready by the first of its dependencies to be
\* emitted, `deps_copy[m].clear()` in place of `deps_copy[m].remove(u)`
release_first_dep(keys, u, dc, rd) ==
    IF keys = <<>> THEN [dc |-> dc, rd |-> rd]
    ELSE LET m == Head(keys)
         IN  IF u \in dc[m]
             THEN release_first_dep(Tail(keys), u, [dc EXCEPT ![m] = {}],
                                    Append(rd, m))
             ELSE release_first_dep(Tail(keys), u, dc, rd)

RECURSIVE release_without_remove(_, _, _, _)
\* release with `deps_copy[m].remove(u)` forgotten: the open set of a module
\* never shrinks
release_without_remove(keys, u, dc, rd) ==
    IF keys = <<>> THEN [dc |-> dc, rd |-> rd]
    ELSE LET m == Head(keys)
         IN  IF u \in dc[m]
             THEN release_without_remove(Tail(keys), u, dc,
                                         IF dc[m] = {} THEN Append(rd, m) ELSE rd)
             ELSE release_without_remove(Tail(keys), u, dc, rd)

RECURSIVE release_without_empty_test(_, _, _, _)
\* release with the test `if not deps_copy[m]` forgotten: a module is
\* appended to ready at every removal from its open set
release_without_empty_test(keys, u, dc, rd) ==
    IF keys = <<>> THEN [dc |-> dc, rd |-> rd]
    ELSE LET m == Head(keys)
         IN  IF u \in dc[m]
             THEN release_without_empty_test(Tail(keys), u,
                                             [dc EXCEPT ![m] = @ \ {u}], Append(rd, m))
             ELSE release_without_empty_test(Tail(keys), u, dc, rd)

RECURSIVE release(_, _, _, _)
\* for m in list(deps_copy.keys()): remove u from deps_copy[m] and append m
\* to ready when that empties deps_copy[m].  Gives [dc, rd].
release(keys, u, dc, rd) ==
    IF keys = <<>> THEN [dc |-> dc, rd |-> rd]
    ELSE LET m == Head(keys)
         IN  IF u \in dc[m]
             THEN release(Tail(keys), u, [dc EXCEPT ![m] = @ \ {u}],
                          IF dc[m] \ {u} = {} THEN Append(rd, m) ELSE rd)
             ELSE release(Tail(keys), u, dc, rd)

\* cycle_detected with the test forgotten: topo_sort returns what it has
cycle_detected_never(ord, d) == FALSE

\* cycle_detected with an empty order taken for a failure too,
\* `if not order or len(order) != len(deps)`
cycle_detected_or_empty(ord, d) == ord = <<>> \/ Len(ord) # Cardinality(DOMAIN d)

\* if len(order) != len(deps): raise
cycle_detected(ord, d) == Len(ord) # Cardinality(DOMAIN d)

\* The exception of line 99 with the names of two modules added to its message
CycleErrorNamingModules == "RuntimeError: Cycle detected in dependency graph: a, b"

\* The exception of line 99.
CycleError == "RuntimeError: Cycle detected in dependency graph"

\* The words of the message of line 99, as texts.
CycleMessage ==
    << <<"C", "y", "c", "l", "e">>, <<"d", "e", "t", "e", "c", "t", "e", "d">>,
       <<"i", "n">>, <<"d", "e", "p", "e", "n", "d", "e", "n", "c", "y">>,
       <<"g", "r", "a", "p", "h">> >>

\* str(e).split() for the exception that ended the run: the only exception
\* the program raises itself is built from the literal of line 99.
message_words(e) ==
    IF e = "RuntimeError: Cycle detected in dependency graph" THEN CycleMessage
    ELSE <<>>

\* ------------------------------------------------------------ the gathering pass

\* def_name with the ClassDef branch forgotten
def_name_no_class(s) ==
    IF s.kind = "def" THEN s.name
    ELSE IF s.kind = "assign" /\ s.target = "name" THEN s.name
    ELSE ""

\* def_name with the assignment branch (lines 212-217) forgotten
def_name_no_assign(s) ==
    IF s.kind \in {"def", "class"} THEN s.name ELSE ""

\* def_name with the FunctionDef branch (lines 208-209) forgotten
def_name_no_function(s) ==
    IF s.kind = "class" THEN s.name
    ELSE IF s.kind = "assign" /\ s.target = "name" THEN s.name
    ELSE ""

\* def_name of main's loop body, "" for None
def_name(s) ==
    IF s.kind \in {"def", "class"} THEN s.name
    ELSE IF s.kind = "assign" /\ s.target = "name" THEN s.name
    ELSE ""

\* is_hoisted with a test of the target added: only an assignment to a bare
\* name is hoisted
is_hoisted_bare_name_only(s) ==
    s.kind \in {"assign", "annassign"} /\ s.target = "name"

\* Whether main hoists the statement into global_stmts.
is_hoisted(s) == s.kind \in {"assign", "annassign"}

\* gather_stmt with `seen_defs.add(def_name)` (line 222) forgotten
gather_stmt_no_add(acc, mod_name, s) ==
    IF IsImport(s)
    THEN [acc EXCEPT !.ext = @ \cup {code_for_node(s)}]
    ELSE IF def_name(s) # "" /\ def_name(s) \in acc.seen
    THEN acc
    ELSE LET item == [src |-> mod_name, stmt |-> s]
         IN  IF is_hoisted(s)
             THEN [acc EXCEPT !.glob = Append(@, item)]
             ELSE [acc EXCEPT !.coll = Append(@, item)]

\* gather_stmt with the `continue` after global_stmts.append (line 232)
\* forgotten: a hoisted statement falls through to line 234
gather_stmt_no_continue(acc, mod_name, s) ==
    IF IsImport(s)
    THEN [acc EXCEPT !.ext = @ \cup {code_for_node(s)}]
    ELSE IF def_name(s) # "" /\ def_name(s) \in acc.seen
    THEN acc
    ELSE LET acc1 == IF def_name(s) # ""
                     THEN [acc EXCEPT !.seen = @ \cup {def_name(s)}]
                     ELSE acc
             item == [src |-> mod_name, stmt |-> s]
         IN  IF is_hoisted(s)
             THEN [acc1 EXCEPT !.glob = Append(@, item), !.coll = Append(@, item)]
             ELSE [acc1 EXCEPT !.coll = Append(@, item)]

\* One turn of `for stmt in modified.body` on the accumulators
\* acc = [ext, glob, coll, seen]; a kept statement is recorded with the
\* module it comes from.
gather_stmt(acc, mod_name, s) ==
    IF IsImport(s)
    THEN [acc EXCEPT !.ext = @ \cup {code_for_node(s)}]
    ELSE IF def_name(s) # "" /\ def_name(s) \in acc.seen
    THEN acc
    ELSE LET acc1 == IF def_name(s) # ""
                     THEN [acc EXCEPT !.seen = @ \cup {def_name(s)}]
                     ELSE acc
             item == [src |-> mod_name, stmt |-> s]
         IN  IF is_hoisted(s)
             THEN [acc1 EXCEPT !.glob = Append(@, item)]
             ELSE [acc1 EXCEPT !.coll = Append(@, item)]

RECURSIVE gather_body(_, _, _)
gather_body(acc, mod_name, body) ==
    IF body = <<>> THEN acc
    ELSE gather_body(gather_stmt(acc, mod_name, Head(body)), mod_name, Tail(body))

\* ------------------------------------------------------------ the output file

NoStmt == Stmt("none", <<>>, <<>>, 0, 0, "", "", {}, <<>>)

\* What one write leaves in the file: the section it belongs to, its text
\* (import lines, the header's package name), the statement it renders and
\* the module that statement comes from.
Written(sec, text, stmt, src) == [sec |-> sec, text |-> text, stmt |-> stmt, src |-> src]

header_lines ==
    << Written("header", <<>>, NoStmt, <<>>),
       Written("header", pkg_name, NoStmt, <<>>),
       Written("blank", <<>>, NoStmt, <<>>) >>

\* import_lines with sorted() forgotten: `for imp in external_imports`
import_lines_set_order(ext) ==
    LET lines == SetIter(ext, seed)
    IN  [k \in 1..Len(lines) |-> Written("import", lines[k], NoStmt, <<>>)]
        \o << Written("blank", <<>>, NoStmt, <<>>) >>

\* for imp in sorted(external_imports): out.write(imp + "\n"); then "\n"
import_lines(ext) ==
    LET lines == sorted(ext)
    IN  [k \in 1..Len(lines) |-> Written("import", lines[k], NoStmt, <<>>)]
        \o << Written("blank", <<>>, NoStmt, <<>>) >>

\* global_lines over the list from its end, `for stmt in reversed(global_stmts)`
global_lines_reversed(glob) ==
    [k \in 1..Len(glob) |-> Written("global", <<>>, glob[Len(glob) + 1 - k].stmt,
                                    glob[Len(glob) + 1 - k].src)]
    \o (IF glob # <<>> THEN << Written("blank", <<>>, NoStmt, <<>>) >> ELSE <<>>)

\* for stmt in global_stmts: out.write(...); if global_stmts: out.write("\n")
global_lines(glob) ==
    [k \in 1..Len(glob) |-> Written("global", <<>>, glob[k].stmt, glob[k].src)]
    \o (IF glob # <<>> THEN << Written("blank", <<>>, NoStmt, <<>>) >> ELSE <<>>)

\* body_lines over the list from its end,
\* `cst.Module(body=collected_stmts[::-1])`
body_lines_reversed(coll) ==
    [k \in 1..Len(coll) |-> Written("body", <<>>, coll[Len(coll) + 1 - k].stmt,
                                    coll[Len(coll) + 1 - k].src)]

\* out.write(cst.Module(body=collected_stmts).code)
body_lines(coll) ==
    [k \in 1..Len(coll) |-> Written("body", <<>>, coll[k].stmt, coll[k].src)]

\* section_lines with the globals written before the imports
section_lines_globals_first(step, ext, glob, coll) ==
    IF step = "imports" THEN global_lines(glob)
    ELSE IF step = "globals" THEN import_lines(ext)
    ELSE body_lines(coll)

\* What main writes at each step after the header: the imports (lines
\* 243-245), the hoisted globals (248-251), the module body (254-255).
section_lines(step, ext, glob, coll) ==
    IF step = "imports" THEN import_lines(ext)
    ELSE IF step = "globals" THEN global_lines(glob)
    ELSE body_lines(coll)

\* ------------------------------------------------------------ main()

NoPrev == [out |-> <<>>, err |-> "", sorted_names |-> <<>>, finished |-> FALSE]

\* The state main() starts in, for a discovered tree.
Start(mm) ==
    /\ module_map = mm
    /\ seed = 0
    /\ run = 1
    /\ prev = NoPrev
    /\ pc = "scan"
    /\ idx = 1
    /\ deps = [name \in KeySet(mm) |-> {}]
    /\ deps_copy = [name \in KeySet(mm) |-> {}]
    /\ ready = <<>>
    /\ order = <<>>
    /\ sorted_names = <<>>
    /\ external_imports = {}
    /\ global_stmts = <<>>
    /\ collected_stmts = <<>>
    /\ seen_defs = {}
    /\ opened = FALSE
    /\ out = <<>>
    /\ err = ""

\* One turn of `for mod_name, path in module_map.items()` (lines 157-165).
ScanModule ==
    /\ pc = "scan"
    /\ idx <= Len(module_map)
    /\ parses(module_map[idx].body)
    /\ deps' = add_deps(deps, module_map, module_map[idx].name,
                        SetIter(collector_deps(module_map[idx].body), seed))
    /\ idx' = idx + 1
    /\ UNCHANGED <<module_map, seed, run, prev, pc, deps_copy, ready, order,
                   sorted_names, external_imports, global_stmts,
                   collected_stmts, seen_defs, opened, out, err>>

\* cst.parse_module(src) raises in the scan loop (line 159) and nothing
\* catches it.  (The second parse of each module, line 178, reads the same
\* source and so returns as the first did.)
ParseRaise ==
    /\ pc = "scan"
    /\ idx <= Len(module_map)
    /\ ~ parses(module_map[idx].body)
    /\ pc' = "failed"
    /\ err' = ParserSyntaxError
    /\ UNCHANGED <<module_map, seed, run, prev, idx, deps, deps_copy, ready,
                   order, sorted_names, external_imports, global_stmts,
                   collected_stmts, seen_defs, opened, out>>

\* The call of topo_sort(deps) up to its loop (lines 85-88).
TopoEnter ==
    /\ pc = "scan"
    /\ idx > Len(module_map)
    /\ deps_copy' = deps
    /\ order' = <<>>
    /\ ready' = initial_ready(deps, Keys(module_map))
    /\ pc' = "topo"
    /\ UNCHANGED <<module_map, seed, run, prev, idx, deps, sorted_names,
                   external_imports, global_stmts, collected_stmts, seen_defs,
                   opened, out, err>>

\* One turn of `while ready` (lines 89-97).
TopoPop ==
    /\ pc = "topo"
    /\ ready # <<>>
    /\ LET u == Head(ready)
           r == release(Keys(module_map), u, deps_copy, Tail(ready))
       IN  /\ order' = Append(order, u)
           /\ deps_copy' = r.dc
           /\ ready' = r.rd
    /\ UNCHANGED <<module_map, seed, run, prev, pc, idx, deps, sorted_names,
                   external_imports, global_stmts, collected_stmts, seen_defs,
                   opened, out, err>>

\* raise RuntimeError("Cycle detected in dependency graph") (lines 98-99)
TopoRaise ==
    /\ pc = "topo"
    /\ ready = <<>>
    /\ cycle_detected(order, deps)
    /\ pc' = "failed"
    /\ err' = CycleError
    /\ UNCHANGED <<module_map, seed, run, prev, idx, deps, deps_copy, ready,
                   order, sorted_names, external_imports, global_stmts,
                   collected_stmts, seen_defs, opened, out>>

\* return order (line 100), and main's lines 167-172
TopoReturn ==
    /\ pc = "topo"
    /\ ready = <<>>
    /\ ~ cycle_detected(order, deps)
    /\ sorted_names' = order
    /\ external_imports' = {}
    /\ global_stmts' = <<>>
    /\ collected_stmts' = <<>>
    /\ seen_defs' = {}
    /\ pc' = "gather"
    /\ idx' = 1
    /\ UNCHANGED <<module_map, seed, run, prev, deps, deps_copy, ready, order,
                   opened, out, err>>

\* One turn of `for mod_name in sorted_names` (lines 175-234).
GatherModule ==
    /\ pc = "gather"
    /\ idx <= Len(sorted_names)
    /\ ~ remover_raises(body_of(module_map, sorted_names[idx]))
    /\ LET mod_name == sorted_names[idx]
           modified == visit_remover(body_of(module_map, mod_name))
           acc == gather_body([ext |-> external_imports, glob |-> global_stmts,
                               coll |-> collected_stmts, seen |-> seen_defs],
                              mod_name, modified)
       IN  /\ external_imports' = acc.ext
           /\ global_stmts' = acc.glob
           /\ collected_stmts' = acc.coll
           /\ seen_defs' = acc.seen
    /\ idx' = idx + 1
    /\ UNCHANGED <<module_map, seed, run, prev, pc, deps, deps_copy, ready,
                   order, sorted_names, opened, out, err>>

\* module.visit(remover) raises in the gathering loop (line 179) and nothing
\* catches it.
RemoverRaise ==
    /\ pc = "gather"
    /\ idx <= Len(sorted_names)
    /\ remover_raises(body_of(module_map, sorted_names[idx]))
    /\ pc' = "failed"
    /\ err' = CSTValidationError
    /\ UNCHANGED <<module_map, seed, run, prev, idx, deps, deps_copy, ready,
                   order, sorted_names, external_imports, global_stmts,
                   collected_stmts, seen_defs, opened, out>>

\* open(args.out_file, "w") and the header (lines 237-240)
OpenOutput ==
    /\ pc = "gather"
    /\ idx > Len(sorted_names)
    /\ opened' = TRUE
    /\ out' = header_lines
    /\ pc' = "imports"
    /\ UNCHANGED <<module_map, seed, run, prev, idx, deps, deps_copy, ready,
                   order, sorted_names, external_imports, global_stmts,
                   collected_stmts, seen_defs, err>>

\* lines 243-245
WriteImports ==
    /\ pc = "imports"
    /\ out' = out \o section_lines("imports", external_imports, global_stmts,
                                     collected_stmts)
    /\ pc' = "globals"
    /\ UNCHANGED <<module_map, seed, run, prev, idx, deps, deps_copy, ready,
                   order, sorted_names, external_imports, global_stmts,
                   collected_stmts, seen_defs, opened, err>>

\* lines 248-251
WriteGlobals ==
    /\ pc = "globals"
    /\ out' = out \o section_lines("globals", external_imports, global_stmts,
                                     collected_stmts)
    /\ pc' = "body"
    /\ UNCHANGED <<module_map, seed, run, prev, idx, deps, deps_copy, ready,
                   order, sorted_names, external_imports, global_stmts,
                   collected_stmts, seen_defs, opened, err>>

\* lines 254-255, and the end of main()
WriteBody ==
    /\ pc = "body"
    /\ out' = out \o section_lines("body", external_imports, global_stmts,
                                     collected_stmts)
    /\ pc' = "done"
    /\ UNCHANGED <<module_map, seed, run, prev, idx, deps, deps_copy, ready,
                   order, sorted_names, external_imports, global_stmts,
                   collected_stmts, seen_defs, opened, err>>

Next ==
    \/ ScanModule
    \/ TopoEnter
    \/ TopoPop
    \/ TopoRaise
    \/ TopoReturn
    \/ GatherModule
    \/ OpenOutput
    \/ WriteImports
    \/ WriteGlobals
    \/ WriteBody

\* The engine is run once more on the unchanged tree, in a new process: the
\* output file of the first run is still on disk.
Rerun ==
    /\ pc \in {"done", "failed"}
    /\ run = 1
    /\ run' = 2
    /\ seed' \in {0, 1}
    /\ prev' = [out |-> out, err |-> err, sorted_names |-> sorted_names,
                finished |-> TRUE]
    /\ pc' = "scan"
    /\ idx' = 1
    /\ deps' = [name \in KeySet(module_map) |-> {}]
    /\ deps_copy' = [name \in KeySet(module_map) |-> {}]
    /\ ready' = <<>>
    /\ order' = <<>>
    /\ sorted_names' = <<>>
    /\ external_imports' = {}
    /\ global_stmts' = <<>>
    /\ collected_stmts' = <<>>
    /\ seen_defs' = {}
    /\ opened' = FALSE
    /\ err' = ""
    /\ UNCHANGED <<module_map, out>>

\* ------------------------------------------------------------ module trees

\* The sequences over U of length at most n.
SeqsUpTo(U, n) == UNION {[1..m -> U] : m \in 0..n}

RECURSIVE Bodies(_, _, _)
\* The ways to give n modules bodies over U with at most budget statements
\* in all.
Bodies(U, n, budget) ==
    IF n = 0 THEN {<<>>}
    ELSE UNION {{<<b>> \o rest : rest \in Bodies(U, n - 1, budget - Len(b))}
                : b \in SeqsUpTo(U, budget)}

\* The module trees discovery can find: at most MaxModules modules, named in
\* discovery order, with at most budget statements over U in all.
Trees(U, budget) ==
    UNION {{[k \in 1..n |-> [name |-> ModNames[k], body |-> bs[k]]]
            : bs \in Bodies(U, n, budget)} : n \in 0..MaxModules}

\* The module trees that exercise topo_sort: at most MaxGraphModules modules
\* with at most budget statements over U in all.
GraphTrees(U, budget) ==
    UNION {{[k \in 1..n |-> [name |-> ModNames[k], body |-> bs[k]]]
            : bs \in Bodies(U, n, budget)} : n \in 0..MaxGraphModules}

\* Names of the trees.
p_a == << pkg_name, <<"a">> >>
p_b == << pkg_name, <<"b">> >>
p_c == << pkg_name, <<"c">> >>
p_m == << pkg_name, <<"m">> >>
p_only == << pkg_name >>
a_only == << <<"a">> >>
b_only == << <<"b">> >>
os == << <<"o", "s">> >>
pkgutil == << <<"p", "k", "g", "u", "t", "i", "l">> >>
x == << <<"x">> >>
helper == << <<"h", "e", "l", "p", "e", "r">> >>

\* The statements of the scenario: `from pkg.b import helper` and `def run`
\* (its module a), `import os` and `def helper` (its module b).
StmtsScenario ==
    { ImportFrom(0, p_b, <<helper>>), FunctionDef("run", <<>>),
      Import(<<os>>, 1), FunctionDef("helper", <<>>) }

Init == \E mm \in Trees(StmtsScenario, MaxStmts) : Start(mm)

Spec == Init /\ [][Next]_vars

\* `from pkg.b import x`, `def f`, `class f`, `f = 1`, `X = f()`, `f: int = 1`
StmtsDefs ==
    { ImportFrom(0, p_b, <<x>>), FunctionDef("f", <<>>), ClassDef("f"),
      Assign("f", {}), Assign("X", {"f"}), AnnAssign("f") }

InitDefs == \E mm \in Trees(StmtsDefs, MaxStmtsWide) : Start(mm)

SpecDefs == InitDefs /\ [][Next]_vars

\* `import pkg.b, os`, `from .b import x`, `from pkg import b`, `import pkg`,
\* `from pkg.a import x`, and a function whose body imports pkg.m, from pkg.b and os
StmtsIntra ==
    { Import(<<p_b, os>>, 1), ImportFrom(1, b_only, <<x>>),
      ImportFrom(0, p_only, <<b_only>>), Import(<<p_only>>, 1),
      ImportFrom(0, p_a, <<x>>),
      FunctionDef("f", << Import(<<p_m>>, 1), ImportFrom(0, p_b, <<x>>),
                          Import(<<os>>, 1) >>) }

InitIntra == \E mm \in Trees(StmtsIntra, MaxStmtsWide) : Start(mm)

SpecIntra == InitIntra /\ [][Next]_vars

\* `import os`, `import  os`, `from os import x`, `import pkg.b, os`,
\* `import os, x`, and a function whose body imports os
StmtsExternal ==
    { Import(<<os>>, 1), Import(<<os>>, 2), ImportFrom(0, os, <<x>>),
      Import(<<p_b, os>>, 1), Import(<<os, x>>, 1),
      FunctionDef("f", << Import(<<os>>, 1) >>) }

InitExternal == \E mm \in Trees(StmtsExternal, MaxStmtsWide) : Start(mm)

SpecExternal == InitExternal /\ [][Next]_vars

\* `from pkg.a import x`, `from pkg.b import x`, `import pkg.b`, `from pkg.m import x`
\* (no module m is discovered), `from .a import x`, `def f`
StmtsGraph ==
    { ImportFrom(0, p_a, <<x>>), ImportFrom(0, p_b, <<x>>), Import(<<p_b>>, 1),
      ImportFrom(0, p_m, <<x>>), ImportFrom(1, a_only, <<x>>),
      FunctionDef("f", <<>>) }

InitGraph == \E mm \in Trees(StmtsGraph, MaxStmtsWide) : Start(mm)

SpecGraph == InitGraph /\ [][Next]_vars

\* `import os`, `X = 1`, `Y: int = 1`, `def f`, an expression statement,
\* `from pkg.b import x`
StmtsSections ==
    { Import(<<os>>, 1), Assign("X", {}), AnnAssign("Y"), FunctionDef("f", <<>>),
      Expr({}), ImportFrom(0, p_b, <<x>>) }

InitSections == \E mm \in Trees(StmtsSections, MaxStmtsWide) : Start(mm)

SpecSections == InitSections /\ [][Next]_vars

\* `from pkg.b import x`, `from pkg.m import x`, `import os`,
\* `from os import x`, `def f`
StmtsRerun ==
    { ImportFrom(0, p_b, <<x>>), ImportFrom(0, p_m, <<x>>), Import(<<os>>, 1),
      ImportFrom(0, os, <<x>>), FunctionDef("f", <<>>) }

InitRerun == \E mm \in Trees(StmtsRerun, MaxStmtsWide) : Start(mm)

\* A run, and a second run over the unchanged tree.
NextRerun == Next \/ Rerun

SpecRerun == InitRerun /\ [][NextRerun]_vars

\* `from pkgutil import x`, `from os import x`, `from pkg.b import x`,
\* `from pkg import b`, `import pkgutil`, `def f`
StmtsFrom ==
    { ImportFrom(0, pkgutil, <<x>>), ImportFrom(0, os, <<x>>),
      ImportFrom(0, p_b, <<x>>), ImportFrom(0, p_only, <<b_only>>),
      Import(<<pkgutil>>, 1), FunctionDef("f", <<>>) }

InitFrom == \E mm \in Trees(StmtsFrom, MaxStmtsWide) : Start(mm)

SpecFrom == InitFrom /\ [][Next]_vars

\* a text that is not Python, `import os`, `def f`, `X = 1`,
\* `from pkg.b import x`
StmtsParse ==
    { NotPython, Import(<<os>>, 1), FunctionDef("f", <<>>), Assign("X", {}),
      ImportFrom(0, p_b, <<x>>) }

InitParse == \E mm \in Trees(StmtsParse, MaxStmtsWide) : Start(mm)

\* A run over sources that may fail to parse.
NextParse == Next \/ ParseRaise

SpecParse == InitParse /\ [][NextParse]_vars

\* `import os, pkg.b`, `import pkg.b, os`, `import pkg.b`, `import pkg, pkg.a`,
\* `import os`, `import pkg.m, x`
StmtsBare ==
    { Import(<<os, p_b>>, 1), Import(<<p_b, os>>, 1), Import(<<p_b>>, 1),
      Import(<<p_only, p_a>>, 1), Import(<<os>>, 1), Import(<<p_m, x>>, 1) }

InitBare == \E mm \in Trees(StmtsBare, MaxStmtsWide) : Start(mm)

\* A run over bare imports that the remover may fail to rewrite.
NextBare == Next \/ RemoverRaise

SpecBare == InitBare /\ [][NextBare]_vars

\* `X = 1`, `a.b = 1`, `Y: int = 1`, `a.b: int = 1`, `def f`,
\* `from pkg.b import x`
StmtsTargets ==
    { Assign("X", {}), AttrAssign("a"), AnnAssign("Y"), AnnAttrAssign("a"),
      FunctionDef("f", <<>>), ImportFrom(0, p_b, <<x>>) }

InitTargets == \E mm \in Trees(StmtsTargets, MaxStmtsWide) : Start(mm)

SpecTargets == InitTargets /\ [][Next]_vars

\* `X = 1`, `Y: int = 1`, `a.b = 1`, `from pkg.b import x`
StmtsGlobals ==
    { Assign("X", {}), AnnAssign("Y"), AttrAssign("a"), ImportFrom(0, p_b, <<x>>) }

InitGlobals == \E mm \in Trees(StmtsGlobals, MaxStmts) : Start(mm)

SpecGlobals == InitGlobals /\ [][Next]_vars

\* `def f`, `class g`, an expression statement, `from pkg.b import x`
StmtsBody ==
    { FunctionDef("f", <<>>), ClassDef("g"), Expr({}), ImportFrom(0, p_b, <<x>>) }

InitBody == \E mm \in Trees(StmtsBody, MaxStmts) : Start(mm)

SpecBody == InitBody /\ [][Next]_vars

\* `import os`, `X = 1`, `def f`, `from pkg.b import x`
StmtsPlaces ==
    { Import(<<os>>, 1), Assign("X", {}), FunctionDef("f", <<>>),
      ImportFrom(0, p_b, <<x>>) }

InitPlaces == \E mm \in Trees(StmtsPlaces, MaxStmts) : Start(mm)

SpecPlaces == InitPlaces /\ [][Next]_vars

\* `import pkg.a`, `import pkg.b`, `import pkg.c`
StmtsTopo == { Import(<<p_a>>, 1), Import(<<p_b>>, 1), Import(<<p_c>>, 1) }

InitTopo == \E mm \in GraphTrees(StmtsTopo, MaxGraphImports) : Start(mm)

SpecTopo == InitTopo /\ [][Next]_vars

\* The names a dependency mapping over n modules may hold: its keys and the
\* name of a module that is not a key.
SortNames(n) == {ModNames[k] : k \in 1..n} \cup {<<"m">>}

\* topo_sort called on its own, on any mapping from at most MaxGraphModules
\* keys to sets of at most MaxSortDeps names: the state of a caller about to
\* call topo_sort(deps), with module_map giving the insertion order of the
\* keys.
InitSort ==
    \E n \in 0..MaxGraphModules :
        \E d \in [{ModNames[k] : k \in 1..n} ->
                     {S \in SUBSET SortNames(n) : Cardinality(S) <= MaxSortDeps}] :
            /\ module_map = [k \in 1..n |-> [name |-> ModNames[k], body |-> <<>>]]
            /\ seed = 0
            /\ run = 1
            /\ prev = NoPrev
            /\ pc = "scan"
            /\ idx = n + 1
            /\ deps = d
            /\ deps_copy = [name \in {ModNames[k] : k \in 1..n} |-> {}]
            /\ ready = <<>>
            /\ order = <<>>
            /\ sorted_names = <<>>
            /\ external_imports = {}
            /\ global_stmts = <<>>
            /\ collected_stmts = <<>>
            /\ seen_defs = {}
            /\ opened = FALSE
            /\ out = <<>>
            /\ err = ""

\* topo_sort from its call to its return or its raise.
NextSort == TopoEnter \/ TopoPop \/ TopoRaise \/ TopoReturn

SpecSort == InitSort /\ [][NextSort]_vars

\* topo_sort is sequential code: while one of its steps can be taken, the
\* interpreter takes it.
FairSpecSort == SpecSort /\ WF_vars(NextSort)

\* ------------------------------------------------------------ the claims

\* The positions of the output file.
Pos == DOMAIN out

\* Statement s of a module is an intra-package import of submodule B.
IntraImportOf(s, B) ==
    \/ /\ s.kind = "import"
       /\ \E k \in 1..Len(s.names) : s.names[k] = <<pkg_name, B>>
    \/ /\ s.kind = "from"
       /\ \/ s.rel = 0 /\ s.mod = <<pkg_name, B>>
          \/ s.rel > 0 /\ s.mod = <<B>>
          \/ /\ (s.rel > 0 /\ s.mod = <<>>) \/ (s.rel = 0 /\ s.mod = <<pkg_name>>)
             /\ \E k \in 1..Len(s.names) : s.names[k] = <<B>>

\* Module A's body, as discovered, holds a top-level intra-package import of B.
ImportsModule(A, B) ==
    \E k \in 1..Len(body_of(module_map, A)) :
        IntraImportOf(body_of(module_map, A)[k], B)

\* C1: for registered modules A and B where A's original body holds an
\* intra-package import of B, every retained statement of B (hoisted or not)
\* is in the output before every retained statement of A.
C1_DependencyOrdering ==
    pc = "done" =>
        \A A \in KeySet(module_map), B \in KeySet(module_map) :
            (A # B /\ ImportsModule(A, B)) =>
                \A i \in Pos, j \in Pos :
                    (out[i].src = B /\ out[j].src = A) => i < j

\* The written statement binds name n at module level.
BindsName(w, n) ==
    /\ w.stmt.kind \in {"def", "class", "assign", "annassign"}
    /\ w.stmt.name = n
    /\ w.stmt.kind \in {"assign", "annassign"} => w.stmt.target = "name"

\* C2: in the output every symbol is defined before first use: a retained
\* statement that reads, at load time, a name bound by a retained definition
\* or assignment comes after a statement binding that name.
C2_DefinedBeforeUse ==
    pc = "done" =>
        \A i \in Pos : \A n \in out[i].stmt.uses :
            (\E j \in Pos : BindsName(out[j], n)) =>
                (\E j \in 1..(i - 1) : BindsName(out[j], n))

\* The name that starts at position k of text t is the package or one of its
\* submodules.
PackageNameAt(t, k) ==
    /\ k + Len(pkg_name) - 1 <= Len(t)
    /\ SubSeq(t, k, k + Len(pkg_name) - 1) = pkg_name
    /\ \/ k + Len(pkg_name) > Len(t)
       \/ t[k + Len(pkg_name)] \in {".", ",", " "}

\* The line of text t is an import statement with the package, or one of its
\* submodules, as a target.
IsIntraPackageText(t) ==
    \/ /\ StartsWith(t, <<"i", "m", "p", "o", "r", "t", " ">>)
       /\ \E k \in 8..Len(t) : t[k - 1] = " " /\ PackageNameAt(t, k)
    \/ /\ StartsWith(t, <<"f", "r", "o", "m", " ">>)
       /\ \E k \in 6..Len(t) :
            /\ \A j \in 6..(k - 1) : t[j] = " "
            /\ t[k] = "." \/ PackageNameAt(t, k)

\* The name (a Name/Attribute chain) is the package or one of its submodules.
IsPackageName(name) == name # <<>> /\ name[1] = pkg_name

\* The statement is an import with the package, or one of its submodules, as
\* a target.
IsIntraPackageStmt(s) ==
    \/ s.kind = "import" /\ \E k \in 1..Len(s.names) : IsPackageName(s.names[k])
    \/ s.kind = "from" /\ (s.rel > 0 \/ IsPackageName(s.mod))

\* C3: the output holds no import statement (bare or from-import), at any
\* depth, whose target is the package name or a dotted name starting with
\* the package name and a dot.
C3_NoIntraPackageImports ==
    \A i \in Pos :
        /\ ~ IsIntraPackageText(out[i].text)
        /\ ~ IsIntraPackageStmt(out[i].stmt)
        /\ \A k \in 1..Len(out[i].stmt.inner) :
               ~ IsIntraPackageStmt(out[i].stmt.inner[k])

\* A finished run over a tree with a bare import that names a submodule
\* beside an external module and with a function whose body imports the
\* package: the external alias and the function are in the output.
C3_Witness ==
    /\ pc = "done"
    /\ \E m \in 1..Len(module_map) : \E k \in 1..Len(module_map[m].body) :
           /\ module_map[m].body[k].kind = "import"
           /\ IsIntraPackageStmt(module_map[m].body[k])
           /\ \E i \in Pos : out[i].text = <<"i", "m", "p", "o", "r", "t", " ", "o", "s">>
    /\ \E m \in 1..Len(module_map) : \E k \in 1..Len(module_map[m].body) :
           /\ \E j \in 1..Len(module_map[m].body[k].inner) :
                  IsIntraPackageStmt(module_map[m].body[k].inner[j])
           /\ \E i \in Pos : out[i].stmt.kind = "def" /\ out[i].stmt.inner # <<>>

\* The positions of the output's import section.
ImportPos == {i \in Pos : out[i].sec = "import"}

\* The top-level import statements of the discovered modules that name
\* nothing of the package, as [m, k]: statement k of module m.
ExternalImports ==
    UNION {{<<m, k>> : k \in {n \in 1..Len(module_map[m].body) :
                                /\ IsImport(module_map[m].body[n])
                                /\ ~ IsIntraPackageStmt(module_map[m].body[n])}}
           : m \in 1..Len(module_map)}

\* C4: external imports are a set keyed by their exact rendered text: an
\* external import that modules write the same way is one line of the
\* output's import section, every line of the section is such a rendered
\* text, and the section is in ascending lexicographic order of the text.
C4_ImportsUniqueSorted ==
    pc \in {"globals", "body", "done"} =>
        /\ \A mk \in ExternalImports :
               Cardinality({i \in ImportPos :
                   out[i].text = code_for_node(module_map[mk[1]].body[mk[2]])}) = 1
        /\ \A i \in ImportPos, j \in ImportPos :
               i < j => StrLess(out[i].text, out[j].text)
        /\ {out[i].text : i \in ImportPos} = external_imports

\* A finished run over two modules that both hold `import os`, with a second,
\* different import line in the section.
C4_Witness ==
    /\ pc = "done"
    /\ Len(module_map) >= 2
    /\ \E mk \in ExternalImports, nl \in ExternalImports :
           /\ mk[1] # nl[1]
           /\ module_map[mk[1]].body[mk[2]] = Import(<<os>>, 1)
           /\ module_map[nl[1]].body[nl[2]] = Import(<<os>>, 1)
    /\ Cardinality(ImportPos) >= 2

IsDefinition(s) == s.kind \in {"def", "class"}

\* The names some discovered module defines as a function or class at top level.
DefinedNames ==
    UNION {{module_map[m].body[k].name :
                k \in {n \in 1..Len(module_map[m].body) :
                          IsDefinition(module_map[m].body[n])}}
           : m \in 1..Len(module_map)}

\* The modules (their names) that define n as a function or class at top level.
DefinersOf(n) ==
    {module_map[m].name : m \in {q \in 1..Len(module_map) :
        \E k \in 1..Len(module_map[q].body) :
            IsDefinition(module_map[q].body[k]) /\ module_map[q].body[k].name = n}}

\* The place of a module in the emission order.
PlanIndex(name) == CHOOSE i \in 1..Len(sorted_names) : sorted_names[i] = name

\* The definer of n that comes earliest in the emission order.
EarliestDefiner(n) ==
    CHOOSE d \in DefinersOf(n) : \A e \in DefinersOf(n) : PlanIndex(d) <= PlanIndex(e)

\* The index of the first definition of n in a module's body.
FirstDefinition(name, n) ==
    CHOOSE k \in 1..Len(body_of(module_map, name)) :
        /\ IsDefinition(body_of(module_map, name)[k])
        /\ body_of(module_map, name)[k].name = n
        /\ \A j \in 1..(k - 1) :
               ~ (IsDefinition(body_of(module_map, name)[j])
                  /\ body_of(module_map, name)[j].name = n)

\* The output positions of the definitions of n.
DefinitionPos(n) ==
    {i \in Pos : IsDefinition(out[i].stmt) /\ out[i].stmt.name = n}

\* C5: for every function or class name defined at top level in more than
\* one module, exactly one definition with that name is in the output, the
\* one from the module that comes earliest in the emission order.
C5_OneDefinitionEarliestModule ==
    pc = "done" =>
        \A n \in DefinedNames :
            Cardinality(DefinersOf(n)) > 1 =>
                \E i \in Pos :
                    /\ DefinitionPos(n) = {i}
                    /\ out[i].src = EarliestDefiner(n)

IsSimpleAssignTo(s, n) == s.kind = "assign" /\ s.target = "name" /\ s.name = n

\* A top-level simple assignment to the bare name n is processed before the
\* first definition of n: in a module earlier in the emission order than the
\* earliest definer, or earlier in the earliest definer's own body.
AssignedBeforeDefined(n) ==
    \/ \E name \in KeySet(module_map) :
           /\ PlanIndex(name) < PlanIndex(EarliestDefiner(n))
           /\ \E k \in 1..Len(body_of(module_map, name)) :
                  IsSimpleAssignTo(body_of(module_map, name)[k], n)
    \/ \E k \in 1..(FirstDefinition(EarliestDefiner(n), n) - 1) :
           IsSimpleAssignTo(body_of(module_map, EarliestDefiner(n))[k], n)

\* C5 as amended: for every function or class name defined at top level in
\* more than one module, the output holds exactly one definition with that
\* name, the first one of the module that comes earliest in the emission
\* order, unless a top-level simple assignment to that name is processed
\* before it: then the output holds no definition with that name.
C5_OneDefinitionUnlessAssigned ==
    pc = "done" =>
        \A n \in DefinedNames :
            Cardinality(DefinersOf(n)) > 1 =>
                IF AssignedBeforeDefined(n)
                THEN DefinitionPos(n) = {}
                ELSE \E i \in Pos :
                       /\ DefinitionPos(n) = {i}
                       /\ out[i].src = EarliestDefiner(n)
                       /\ out[i].stmt =
                            body_of(module_map, EarliestDefiner(n))
                                [FirstDefinition(EarliestDefiner(n), n)]

\* A finished run where two modules define f, no assignment to f is processed
\* first, and the module earliest in the emission order is not the one
\* discovered first: its definition is the one in the output.
C5_Witness ==
    /\ pc = "done"
    /\ Cardinality(DefinersOf("f")) > 1
    /\ ~ AssignedBeforeDefined("f")
    /\ EarliestDefiner("f") # module_map[1].name
    /\ \E i \in Pos : DefinitionPos("f") = {i} /\ out[i].src = EarliestDefiner("f")

RECURSIVE Descendants(_, _, _)
\* The modules reached from the set S in at most k more steps along d.
Descendants(d, S, k) ==
    IF k = 0 THEN S
    ELSE Descendants(d, S \cup UNION {d[n] : n \in S \cap DOMAIN d}, k - 1)

\* The dependency graph d has a cycle.
HasCycle(d) ==
    \E n \in DOMAIN d : n \in Descendants(d, d[n], Cardinality(DOMAIN d))

\* Module A's body holds a top-level import, bare or from-import, whose dotted
\* name is <package>.B.
DottedImport(A, B) ==
    \E k \in 1..Len(body_of(module_map, A)) :
        LET s == body_of(module_map, A)[k]
        IN  \/ s.kind = "from" /\ s.rel = 0 /\ s.mod = <<pkg_name, B>>
            \/ s.kind = "import" /\ \E j \in 1..Len(s.names) : s.names[j] = <<pkg_name, B>>

NamesMissingModule(s) ==
    \/ /\ s.kind = "from" /\ s.rel = 0 /\ Len(s.mod) = 2
       /\ s.mod[1] = pkg_name /\ s.mod[2] \notin KeySet(module_map)
    \/ /\ s.kind = "import"
       /\ \E j \in 1..Len(s.names) :
              /\ Len(s.names[j]) = 2
              /\ s.names[j][1] = pkg_name
              /\ s.names[j][2] \notin KeySet(module_map)

\* Some discovered module imports a submodule that is not in the registry.
ImportsMissing ==
    \E m \in 1..Len(module_map) : \E k \in 1..Len(module_map[m].body) :
        NamesMissingModule(module_map[m].body[k])

ScenarioTree ==
    << [name |-> <<"a">>,
        body |-> << ImportFrom(0, p_b, <<helper>>), FunctionDef("run", <<>>) >>],
       [name |-> <<"b">>,
        body |-> << Import(<<os>>, 1), FunctionDef("helper", <<>>) >>] >>

\* The written lines that are neither the header nor blank.
Content == SelectSeq(out, LAMBDA w : w.sec \notin {"header", "blank"})

\* C9: for the scenario's tree the output is, in this order, the import line
\* `import os`, the definition of helper (from b) and the definition of run
\* (from a), and `from pkg.b import helper` is nowhere in it.
C9_Scenario ==
    (module_map = ScenarioTree /\ pc = "done") =>
        /\ Content =
             << Written("import", <<"i", "m", "p", "o", "r", "t", " ", "o", "s">>,
                        NoStmt, <<>>),
                Written("body", <<>>, FunctionDef("helper", <<>>), <<"b">>),
                Written("body", <<>>, FunctionDef("run", <<>>), <<"a">>) >>
        /\ \A i \in Pos :
               /\ out[i].stmt # ImportFrom(0, p_b, <<helper>>)
               /\ ~ StartsWith(out[i].text, <<"f", "r", "o", "m">>)

\* The run over the scenario's tree has finished.
C9_Witness == module_map = ScenarioTree /\ pc = "done" /\ Len(Content) = 3

\* What a written line is, by what it holds: 0 a header line, 1 an import
\* statement, 2 an assignment, 3 any other statement; -1 a blank line.
SectionOf(w) ==
    IF w.sec = "header" THEN 0
    ELSE IF \/ IsImport(w.stmt)
            \/ StartsWith(w.text, <<"i", "m", "p", "o", "r", "t">>)
            \/ StartsWith(w.text, <<"f", "r", "o", "m">>) THEN 1
    ELSE IF w.stmt.kind \in {"assign", "annassign"} THEN 2
    ELSE IF w.stmt.kind # "none" THEN 3
    ELSE -1

\* C10: the output is written in fixed section order: the header, then all
\* hoisted external imports, then all hoisted global assignments, then all
\* remaining statements.  No import line comes after an assignment or another
\* statement, and no assignment after another statement.
C10_SectionOrder ==
    /\ opened =>
           /\ Len(out) >= 3
           /\ \A i \in 1..2 : SectionOf(out[i]) = 0
    /\ \A i \in Pos, j \in Pos :
           (i < j /\ SectionOf(out[i]) >= 0 /\ SectionOf(out[j]) >= 0) =>
               SectionOf(out[i]) <= SectionOf(out[j])
    /\ pc = "done" =>
           /\ Cardinality({i \in Pos : SectionOf(out[i]) = 1}) = Cardinality(external_imports)
           /\ Cardinality({i \in Pos : SectionOf(out[i]) = 2}) = Len(global_stmts)
           /\ Cardinality({i \in Pos : SectionOf(out[i]) = 3}) = Len(collected_stmts)

\* A finished run whose output has an import line, a hoisted assignment and
\* another statement.
C10_Witness ==
    /\ pc = "done"
    /\ \E i \in Pos, j \in Pos, k \in Pos :
           SectionOf(out[i]) = 1 /\ SectionOf(out[j]) = 2 /\ SectionOf(out[k]) = 3

\* C7: determinism.  A second run of the engine on the same module tree, in
\* the same discovery order, ends as the first did: the same emission order,
\* the same error if any, and the same output file, line for line.
C7_Determinism ==
    (run = 2 /\ pc \in {"done", "failed"}) =>
        /\ sorted_names = prev.sorted_names
        /\ err = prev.err
        /\ out = prev.out

\* A second run, in a process with another hash seed than the first, has
\* finished over two modules with two different import lines in its output.
C7_Witness ==
    /\ run = 2
    /\ seed = 1
    /\ pc = "done"
    /\ prev.finished
    /\ Len(sorted_names) >= 2
    /\ Cardinality(ImportPos) >= 2

\* The positions of the output's section of hoisted globals.
GlobalPos == {i \in Pos : out[i].sec = "global"}

\* The statement is a top-level simple or annotated assignment to bare name n.
IsAssignTo(s, n) ==
    s.kind \in {"assign", "annassign"} /\ s.target = "name" /\ s.name = n

\* The bare names some discovered module assigns at top level.
AssignedNames ==
    UNION {{module_map[m].body[k].name :
                k \in {q \in 1..Len(module_map[m].body) :
                          /\ module_map[m].body[q].kind \in {"assign", "annassign"}
                          /\ module_map[m].body[q].target = "name"}}
           : m \in 1..Len(module_map)}

\* C11: top-level global assignments are never deduplicated: when two modules
\* each hold a top-level simple or annotated assignment to the same bare
\* name, both assignment statements are in the output's globals section.
C11_AssignmentsNeverDeduplicated ==
    pc = "done" =>
        \A A \in KeySet(module_map), B \in KeySet(module_map) :
            \A ka \in 1..Len(body_of(module_map, A)),
               kb \in 1..Len(body_of(module_map, B)) :
                LET s == body_of(module_map, A)[ka]
                    t == body_of(module_map, B)[kb]
                IN  (A # B /\ \E n \in AssignedNames : IsAssignTo(s, n) /\ IsAssignTo(t, n))
                    => \E i \in GlobalPos, j \in GlobalPos :
                          /\ i # j
                          /\ out[i].src = A /\ out[i].stmt = s
                          /\ out[j].src = B /\ out[j].stmt = t

\* The top-level statements, as <<module name, index>>, that bind n the way
\* seen_defs records it: a function, a class, or a simple assignment to the
\* bare name.
Binders(n) ==
    UNION {{<<module_map[m].name, k>> :
                k \in {q \in 1..Len(module_map[m].body) :
                          \/ /\ IsDefinition(module_map[m].body[q])
                             /\ module_map[m].body[q].name = n
                          \/ IsSimpleAssignTo(module_map[m].body[q], n)}}
           : m \in 1..Len(module_map)}

\* Statement o1 is processed by the gathering pass before statement o2.
ProcessedBefore(o1, o2) ==
    \/ PlanIndex(o1[1]) < PlanIndex(o2[1])
    \/ o1[1] = o2[1] /\ o1[2] < o2[2]

\* The binder of n the gathering pass meets first.
FirstBinder(n) ==
    CHOOSE o \in Binders(n) : \A o2 \in Binders(n) \ {o} : ProcessedBefore(o, o2)

\* The annotated assignments of a sequence of statements.
AnnAssignsOf(stmts) == SelectSeq(stmts, LAMBDA s : s.kind = "annassign")

\* The statements module A has in the globals section, in order.
GlobalsFrom(A) ==
    LET ws == SelectSeq(out, LAMBDA w : w.sec = "global" /\ w.src = A)
    IN  [k \in 1..Len(ws) |-> ws[k].stmt]

\* C11 as amended: annotated assignments are never deduplicated, every one of
\* every module is in the globals section; simple assignments to a bare name
\* are deduplicated through seen_defs: of all the simple assignments to one
\* name the globals section holds at most one, the first one processed, and
\* holds none when a function or class of that name is processed before it.
C11_OnlyAnnotatedKeptTwice ==
    pc = "done" =>
        /\ \A A \in KeySet(module_map) :
               AnnAssignsOf(GlobalsFrom(A)) = AnnAssignsOf(body_of(module_map, A))
        /\ \A n \in AssignedNames :
               LET at == {i \in GlobalPos : IsSimpleAssignTo(out[i].stmt, n)}
               IN  IF Binders(n) # {}
                      /\ IsSimpleAssignTo(body_of(module_map, FirstBinder(n)[1])
                                              [FirstBinder(n)[2]], n)
                   THEN \E i \in GlobalPos :
                          /\ at = {i}
                          /\ out[i].src = FirstBinder(n)[1]
                   ELSE at = {}

\* A finished run over two modules that both assign f with a simple
\* assignment, one of which is in the globals section beside an annotated
\* assignment.
C11_Witness ==
    /\ pc = "done"
    /\ \E A \in KeySet(module_map), B \in KeySet(module_map) :
           /\ A # B
           /\ \E k \in 1..Len(body_of(module_map, A)) :
                  IsSimpleAssignTo(body_of(module_map, A)[k], "f")
           /\ \E k \in 1..Len(body_of(module_map, B)) :
                  IsSimpleAssignTo(body_of(module_map, B)[k], "f")
    /\ \E i \in GlobalPos : IsSimpleAssignTo(out[i].stmt, "f")
    /\ \E i \in GlobalPos : out[i].stmt.kind = "annassign"

\* The place of a module in the registry (its discovery rank).
Reg(name) == CHOOSE k \in 1..Len(module_map) : module_map[k].name = name

\* The modules emitted before position k of order.
EmittedBefore(k) == {order[j] : j \in 1..(k - 1)}

\* C12: the topological order is stable with ties broken by discovery order:
\* at every step of the sort the module emitted next is the earliest
\* registered of all the modules not yet emitted whose dependencies have all
\* been emitted.
C12_EarliestRegisteredAvailable ==
    pc # "scan" =>
        \A k \in 1..Len(order) :
            \A m \in KeySet(module_map) \ EmittedBefore(k) :
                deps[m] \subseteq EmittedBefore(k) => Reg(order[k]) <= Reg(m)

\* The place of an emitted module in order.
OrderIndex(name) == CHOOSE i \in 1..Len(order) : order[i] = name

\* The number of modules emitted when the emitted module became ready: the
\* place in order of the last of its dependencies, 0 when it has none.
ReadyAt(name) ==
    IF deps[name] = {} THEN 0
    ELSE CHOOSE t \in 1..Len(order) :
             /\ order[t] \in deps[name]
             /\ \A d \in deps[name] : OrderIndex(d) <= t

\* C12 as amended: ties are broken by the order in which modules became
\* ready, and by discovery order only among modules that became ready at the
\* same moment.  Every emitted module has all its dependencies emitted before
\* it; of two emitted modules the one that became ready earlier (its last
\* dependency was emitted earlier, or it has none) comes first, and of two
\* that became ready together the earlier registered comes first; when the
\* sort stops, no module whose dependencies are all emitted is left out.
C12_ReadyOrderThenDiscoveryOrder ==
    pc # "scan" =>
        /\ \A i \in 1..Len(order) : deps[order[i]] \subseteq EmittedBefore(i)
        /\ \A i \in 1..Len(order), j \in 1..Len(order) :
               i < j =>
                   \/ ReadyAt(order[i]) < ReadyAt(order[j])
                   \/ /\ ReadyAt(order[i]) = ReadyAt(order[j])
                      /\ Reg(order[i]) < Reg(order[j])
        /\ (pc # "topo" \/ ready = <<>>) =>
               \A m \in KeySet(module_map) \ EmittedBefore(Len(order) + 1) :
                   ~ (deps[m] \subseteq EmittedBefore(Len(order) + 1))

\* The sort has emitted a later registered module while an earlier registered
\* one, released by an emission, was waiting behind it, and the run has
\* finished.
C12_Witness ==
    /\ pc = "done"
    /\ \E i \in 1..Len(order), j \in 1..Len(order) :
           /\ i < j
           /\ Reg(order[j]) < Reg(order[i])
           /\ deps[order[j]] # {}
           /\ deps[order[j]] \subseteq EmittedBefore(i)

\* The modules that the emission of u releases, in registration order: those
\* whose only open dependency is u.
ReleasedBy(u) ==
    SelectSeq(Keys(module_map), LAMBDA m : deps_copy[m] = {u})

\* C20: the worklist of topo_sort is a FIFO queue.  It is seeded with the
\* modules that have no dependency, in registration order; every emission
\* takes the module at its front; and the modules whose last open dependency
\* is the emitted module are appended at its end, in registration order.
C20_WorklistIsFifo ==
    [][ /\ (pc = "scan" /\ pc' = "topo") =>
               ready' = SelectSeq(Keys(module_map), LAMBDA m : deps[m] = {})
        /\ (pc = "topo" /\ order' # order) =>
               /\ ready # <<>>
               /\ order' = Append(order, Head(ready))
               /\ ready' = Tail(ready) \o ReleasedBy(Head(ready))
        /\ (pc = "topo" /\ order' = order) => ready' = ready ]_vars

\* An emission has released a module behind one that was already waiting in
\* the worklist.
C20_Witness ==
    /\ pc = "topo"
    /\ order # <<>>
    /\ Len(ready) >= 2
    /\ deps[ready[1]] = {}
    /\ deps[ready[Len(ready)]] # {}

\* Statement s is a from-import that names submodule B as its source module,
\* relative (`from .B import ...`) or absolute (`from <package>.B import ...`).
FromImportOf(s, B) ==
    /\ s.kind = "from"
    /\ \/ s.rel > 0 /\ s.mod = <<B>>
       \/ s.rel = 0 /\ s.mod = <<pkg_name, B>>

\* C13: every from-import that is dropped as intra-package records the
\* submodule it targets as a dependency: when module A holds `from .B import
\* x` or `from <package>.B import x` and B is registered, the dependency
\* graph has the edge A -> B and B is emitted before A.
C13_FromImportRecordsDependency ==
    pc # "scan" =>
        \A A \in KeySet(module_map), B \in KeySet(module_map) :
            (/\ A # B
             /\ \E k \in 1..Len(body_of(module_map, A)) :
                    FromImportOf(body_of(module_map, A)[k], B))
            => /\ B \in deps[A]
               /\ pc = "done" => PlanIndex(B) < PlanIndex(A)

\* C14: import scanning is shallow: an import statement nested in a function
\* or class body is left unchanged in the output even when it targets the
\* package, and it adds no edge to the dependency graph.
C14_ImportScanningShallow ==
    /\ pc # "scan" =>
           \A A \in KeySet(module_map) :
               deps[A] \subseteq {B \in KeySet(module_map) : DottedImport(A, B)}
    /\ \A i \in Pos :
           out[i].stmt.kind \in {"def", "class"} =>
               \E k \in 1..Len(body_of(module_map, out[i].src)) :
                   out[i].stmt = body_of(module_map, out[i].src)[k]

\* Module A holds a definition whose body holds an import, bare or
\* from-import, whose dotted name is <package>.B.
NestedDottedImport(A, B) ==
    \E k \in 1..Len(body_of(module_map, A)) :
        \E j \in 1..Len(body_of(module_map, A)[k].inner) :
            LET s == body_of(module_map, A)[k].inner[j]
            IN  \/ s.kind = "from" /\ s.rel = 0 /\ s.mod = <<pkg_name, B>>
                \/ s.kind = "import" /\ \E n \in 1..Len(s.names) : s.names[n] = <<pkg_name, B>>

\* An import statement without the names that are the package or one of its
\* submodules.
WithoutPackageNames(s) ==
    IF s.kind = "import"
    THEN [s EXCEPT !.names = SelectSeq(s.names, LAMBDA n : ~ IsPackageName(n))]
    ELSE s

\* The import statement is dropped whole: a bare import with no name left, a
\* from-import that is relative or whose module name starts with the package
\* name.
DroppedWhole(s) ==
    \/ s.kind = "import" /\ WithoutPackageNames(s).names = <<>>
    \/ /\ s.kind = "from"
       /\ s.rel > 0 \/ StartsWith(Join(s.mod, <<".">>), pkg_name)

\* What is left of the import statements of a definition's body.
NestedKept(inner) ==
    SelectSeq([k \in 1..Len(inner) |-> WithoutPackageNames(inner[k])],
              LAMBDA s : ~ DroppedWhole(s))

\* C14 as amended: import scanning is deep.  An import nested in a function
\* or class body that targets the package is removed from the output like a
\* top-level one, and a nested dotted name <package>.<sub> adds the edge to
\* <sub> when <sub> is registered; the other nested imports stay where they
\* are, in the body of their definition, and are not hoisted into the import
\* section.
C14_ImportScanningDeep ==
    /\ pc # "scan" =>
           \A A \in KeySet(module_map) :
               deps[A] = {B \in KeySet(module_map) :
                             DottedImport(A, B) \/ NestedDottedImport(A, B)}
    /\ \A i \in Pos :
           out[i].stmt.kind \in {"def", "class"} =>
               \E k \in 1..Len(body_of(module_map, out[i].src)) :
                   LET s == body_of(module_map, out[i].src)[k]
                   IN  out[i].stmt = [s EXCEPT !.inner = NestedKept(s.inner)]
    /\ \A i \in ImportPos :
           \E m \in 1..Len(module_map) : \E k \in 1..Len(module_map[m].body) :
               /\ IsImport(module_map[m].body[k])
               /\ ~ DroppedWhole(module_map[m].body[k])
               /\ out[i].text = code_for_node(WithoutPackageNames(module_map[m].body[k]))

\* A finished run where a function of module a imports <package>.b in its
\* body, b is registered and emitted first, and the function is in the output
\* with only its external import left.
C14_Witness ==
    /\ pc = "done"
    /\ \E A \in KeySet(module_map), B \in KeySet(module_map) :
           /\ A # B
           /\ NestedDottedImport(A, B)
           /\ ~ DottedImport(A, B)
           /\ B \in deps[A]
           /\ PlanIndex(B) < PlanIndex(A)
           /\ Reg(A) < Reg(B)
           /\ \E i \in Pos :
                  /\ out[i].src = A
                  /\ out[i].stmt.kind = "def"
                  /\ out[i].stmt.inner = << Import(<<os>>, 1) >>
    /\ ImportPos = {}

\* The from-import is not relative and its dotted module name neither is the
\* package name nor starts with the package name and a dot.
IsExternalFrom(s) ==
    /\ s.kind = "from"
    /\ s.rel = 0
    /\ Join(s.mod, <<".">>) # pkg_name
    /\ ~ StartsWith(Join(s.mod, <<".">>), pkg_name \o <<".">>)

\* C15: every top-level from-import whose source module is not relative and
\* whose dotted name neither equals the package name nor starts with
\* '<package>.' (a name that only shares the package name as a string prefix,
\* such as pkgutil for package pkg, included) is kept: its rendered text is a
\* line of the output's import section.
C15_ExternalFromImportKept ==
    pc = "done" =>
        \A m \in 1..Len(module_map) : \A k \in 1..Len(module_map[m].body) :
            IsExternalFrom(module_map[m].body[k]) =>
                \E i \in ImportPos :
                    out[i].text = code_for_node(module_map[m].body[k])

\* C16: when discovery finds no source module (the root does not exist or
\* holds no source file), the run fails with a discovery error and no output
\* file is written.
C16_EmptyDiscoveryFails ==
    module_map = <<>> =>
        /\ ~ opened
        /\ out = <<>>
        /\ pc # "done"
        /\ pc = "failed" => err = "DiscoveryError"

\* C16 as amended: when discovery finds no source module the run does not
\* fail.  scan_modules returns an empty registry, topo_sort returns an empty
\* order without raising, and main opens the output file and writes the two
\* header lines, the blank line after them and the blank line that ends the
\* empty import section.
C16_EmptyDiscoveryWritesHeader ==
    module_map = <<>> =>
        /\ err = ""
        /\ pc # "failed"
        /\ sorted_names = <<>>
        /\ pc = "topo" => (ready = <<>> /\ order = <<>> /\ DOMAIN deps = {})
        /\ pc \in {"imports", "globals", "body", "done"} => opened
        /\ pc = "done" =>
               out = << Written("header", <<>>, NoStmt, <<>>),
                        Written("header", pkg_name, NoStmt, <<>>),
                        Written("blank", <<>>, NoStmt, <<>>),
                        Written("blank", <<>>, NoStmt, <<>>) >>

\* The run over an empty registry has finished with the output file written.
C16_Witness == module_map = <<>> /\ pc = "done" /\ opened /\ Len(out) = 4

\* The modules topo_sort has not emitted.
Unemitted == KeySet(module_map) \ {order[k] : k \in 1..Len(order)}

\* The texts an exception's message is made of.
WordsOf(e) == {message_words(e)[k] : k \in 1..Len(message_words(e))}

\* C17: the error raised when the dependency graph is not a DAG carries the
\* cycle membership: it names the modules that could not be emitted.
C17_CycleErrorNamesModules ==
    pc = "failed" => \A m \in Unemitted : m \in WordsOf(err)

\* C17 as amended: the error raised when the dependency graph is not a DAG is
\* the same for every graph, a RuntimeError with the fixed message "Cycle
\* detected in dependency graph"; it names none of the modules that could not
\* be emitted, nor any other module.
C17_CycleErrorIsFixedMessage ==
    pc = "failed" =>
        /\ err = "RuntimeError: Cycle detected in dependency graph"
        /\ message_words(err) = CycleMessage
        /\ Unemitted # {}
        /\ \A m \in KeySet(module_map) : m \notin WordsOf(err)

\* The sort has failed with one module emitted and two, a cycle, left.
C17_Witness ==
    /\ pc = "failed"
    /\ order # <<>>
    /\ Cardinality(Unemitted) >= 2
    /\ \E A \in Unemitted, B \in Unemitted : A # B /\ B \in deps[A] /\ A \in deps[B]

\* The source of some discovered module is not Python.
SomeModuleUnparsable ==
    \E m \in 1..Len(module_map) : \E k \in 1..Len(module_map[m].body) :
        module_map[m].body[k].kind = "error"

\* C18: a parse failure of any single module aborts the whole run with no
\* partial output.  Every module is parsed before the output file is opened:
\* in a run over a tree where some module fails to parse, the run never gets
\* past the scan, ends with the parser's exception, and the output file is
\* never opened or written.
C18_ParseFailureNoOutput ==
    /\ SomeModuleUnparsable =>
           /\ ~ opened
           /\ out = <<>>
           /\ pc \in {"scan", "failed"}
           /\ pc = "failed" => err = ParserSyntaxError
    /\ opened => (pc \notin {"scan", "topo", "gather"} /\ idx > Len(module_map))

\* The run has ended with the parser's exception at its second module, after
\* a first module that parsed and holds statements.
C18_Witness ==
    /\ pc = "failed"
    /\ err = ParserSyntaxError
    /\ idx = 2
    /\ module_map[1].body # <<>>
    /\ ~ opened

\* The names of a bare import that are neither the package nor one of its
\* submodules.
OtherNames(s) == SelectSeq(s.names, LAMBDA n : ~ IsPackageName(n))

\* C19: a bare import is filtered name by name.  Each dotted name that is the
\* package or starts with '<package>.' is dropped and every other name of the
\* statement is kept: the statement is in the output's import section with
\* the kept names, and is removed only when no name is left; each dropped
\* name <package>.<sub> adds <sub> to the importing module's dependencies
\* (an edge of the graph when <sub> is registered).  So no bare import makes
\* the run fail: a run fails only on a cycle.
C19_BareImportFilteredByName ==
    /\ pc # "scan" =>
           \A A \in KeySet(module_map), B \in KeySet(module_map) :
               DottedImport(A, B) => B \in deps[A]
    /\ pc = "failed" => (err = CycleError /\ HasCycle(deps))
    /\ pc = "done" =>
           /\ \A m \in 1..Len(module_map) : \A k \in 1..Len(module_map[m].body) :
                  LET s == module_map[m].body[k]
                  IN  (s.kind = "import" /\ OtherNames(s) # <<>>) =>
                          \E i \in ImportPos :
                              out[i].text = code_for_node([s EXCEPT !.names = OtherNames(s)])
           /\ \A i \in ImportPos : ~ IsIntraPackageText(out[i].text)

\* topo_sort has returned: its caller holds the list.
Returned == pc \notin {"scan", "topo", "failed"}

\* C21: whenever topo_sort returns a list, for every module m and every
\* dependency d in deps[m], d is in the list at an earlier index than m.
C21_DependenciesFirst ==
    Returned =>
        \A m \in DOMAIN deps : \A d \in deps[m] :
            \E i \in 1..Len(sorted_names), j \in 1..Len(sorted_names) :
                /\ sorted_names[i] = d
                /\ sorted_names[j] = m
                /\ i < j

\* topo_sort has returned an order of three modules that is not the order of
\* their keys, for a mapping where a module has two dependencies.
C21_Witness ==
    /\ Returned
    /\ Len(sorted_names) = 3
    /\ sorted_names # Keys(module_map)
    /\ \E m \in DOMAIN deps : Cardinality(deps[m]) = 2

\* The statement is a simple or annotated assignment whose target is not a
\* single bare name (an attribute, a subscript, a tuple).
IsOtherTargetAssign(s) ==
    s.kind \in {"assign", "annassign"} /\ s.target # "name"

\* The statements module A has among the body statements of the output, in order.
BodyFrom(A) ==
    LET ws == SelectSeq(out, LAMBDA w : w.sec = "body" /\ w.src = A)
    IN  [k \in 1..Len(ws) |-> ws[k].stmt]

\* C22: only a top-level simple or annotated assignment whose target is a
\* single bare name is hoisted into the globals section; an assignment with
\* any other target is kept in place among the body statements of its module.
C22_OnlyBareNameHoisted ==
    pc = "done" =>
        /\ \A i \in GlobalPos : out[i].stmt.target = "name"
        /\ \A A \in KeySet(module_map) :
               SelectSeq(BodyFrom(A), IsOtherTargetAssign)
                   = SelectSeq(body_of(module_map, A), IsOtherTargetAssign)

\* C22 as amended: every top-level simple or annotated assignment is hoisted
\* into the globals section, whatever its target.  An assignment whose target
\* is not a single bare name is never dropped and never left among the body
\* statements: the globals section holds all of them, in their order, and the
\* body holds no assignment at all.
C22_EveryAssignmentHoisted ==
    pc = "done" =>
        /\ \A i \in Pos : out[i].sec = "body" => out[i].stmt.kind \notin {"assign", "annassign"}
        /\ \A i \in GlobalPos : out[i].stmt.kind \in {"assign", "annassign"}
        /\ \A A \in KeySet(module_map) :
               SelectSeq(GlobalsFrom(A), IsOtherTargetAssign)
                   = SelectSeq(body_of(module_map, A), IsOtherTargetAssign)

\* A finished run whose globals section holds an assignment to an attribute
\* after a definition of its module that stays in the body.
C22_Witness ==
    /\ pc = "done"
    /\ \E A \in KeySet(module_map) :
           /\ Len(body_of(module_map, A)) >= 2
           /\ body_of(module_map, A)[1].kind = "def"
           /\ IsOtherTargetAssign(body_of(module_map, A)[2])
           /\ \E i \in GlobalPos : out[i].src = A /\ IsOtherTargetAssign(out[i].stmt)
           /\ \E i \in Pos : out[i].sec = "body" /\ out[i].src = A

RECURSIVE IsSubseq(_, _)
\* Sequence g is made of elements of sequence b, in the order they have in b.
IsSubseq(g, b) ==
    IF g = <<>> THEN TRUE
    ELSE IF b = <<>> THEN FALSE
    ELSE IF Head(g) = Head(b) THEN IsSubseq(Tail(g), Tail(b))
    ELSE IsSubseq(g, Tail(b))

\* C23: hoisted globals are in the output in the order they were first
\* encountered: the modules in emission-plan order and, within one module, in
\* the original order of its statements.
C23_GlobalsInEncounterOrder ==
    pc = "done" =>
        /\ \A i \in GlobalPos, j \in GlobalPos :
               i < j => PlanIndex(out[i].src) <= PlanIndex(out[j].src)
        /\ \A A \in KeySet(module_map) :
               IsSubseq(GlobalsFrom(A), body_of(module_map, A))
        /\ Len(global_stmts) = Cardinality(GlobalPos)

\* A finished run whose emission plan is not the discovery order and whose
\* globals section holds assignments of two modules, two of them different
\* assignments of one module.
C23_Witness ==
    /\ pc = "done"
    /\ sorted_names # Keys(module_map)
    /\ \E i \in GlobalPos, j \in GlobalPos : out[i].src # out[j].src
    /\ \E i \in GlobalPos, j \in GlobalPos :
           i # j /\ out[i].src = out[j].src /\ out[i].stmt # out[j].stmt

\* The positions of the output's body statements.
BodyPos == {i \in Pos : out[i].sec = "body"}

\* C24: retained body statements keep their order: the statements of one
\* module are in the output in their original relative order, and all those
\* of a module earlier in the emission plan come before all those of a module
\* later in the plan.
C24_BodyKeepsOrder ==
    pc = "done" =>
        /\ \A i \in BodyPos, j \in BodyPos :
               i < j => PlanIndex(out[i].src) <= PlanIndex(out[j].src)
        /\ \A A \in KeySet(module_map) :
               IsSubseq(BodyFrom(A), body_of(module_map, A))
        /\ Len(collected_stmts) = Cardinality(BodyPos)

\* A finished run whose emission plan is not the discovery order and whose
\* body holds statements of two modules, two of them different statements of
\* one module.
C24_Witness ==
    /\ pc = "done"
    /\ sorted_names # Keys(module_map)
    /\ \E i \in BodyPos, j \in BodyPos : out[i].src # out[j].src
    /\ \E i \in BodyPos, j \in BodyPos :
           i # j /\ out[i].src = out[j].src /\ out[i].stmt # out[j].stmt

\* Every dependency named in the graph is itself a key of the graph.
Closed(d) == \A m \in DOMAIN d : d[m] \subseteq DOMAIN d

\* The sequence holds no element twice.
NoRepeat(q) == \A i \in 1..Len(q), j \in 1..Len(q) : q[i] = q[j] => i = j

\* C25: when every dependency named in the graph is itself a key of the graph
\* and the graph is acyclic, topo_sort returns without error a list that
\* holds every module exactly once; no module is ever on the worklist or in
\* the result twice.
C25_AcyclicGivesPermutation ==
    /\ NoRepeat(order \o ready)
    /\ (Closed(deps) /\ ~ HasCycle(deps)) =>
           /\ pc # "failed"
           /\ (pc = "topo" /\ ready = <<>>) => Len(order) = Cardinality(DOMAIN deps)
           /\ Returned =>
                  /\ Len(sorted_names) = Cardinality(DOMAIN deps)
                  /\ {sorted_names[i] : i \in 1..Len(sorted_names)} = DOMAIN deps
                  /\ NoRepeat(sorted_names)

\* topo_sort has returned for an acyclic mapping of three modules with
\* dependencies, all of them keys.
C25_Witness ==
    /\ Returned
    /\ Closed(deps)
    /\ ~ HasCycle(deps)
    /\ Len(sorted_names) = 3
    /\ \E m \in DOMAIN deps : Cardinality(deps[m]) = 2

\* C26: topo_sort terminates on every finite dependency mapping, cyclic or
\* not.  The worklist loop runs at most once per module, and the function
\* then either returns an order or raises the cycle error.
C26_SortTerminates ==
    /\ [](Len(order) <= Cardinality(DOMAIN deps))
    /\ [](pc = "failed" => err = CycleError)
    /\ [](Returned => sorted_names = order)
    /\ <>(Returned \/ pc = "failed")

\* topo_sort has ended with the cycle error, after some turns of its loop,
\* on a mapping with a cycle.
C26_Witness ==
    /\ pc = "failed"
    /\ HasCycle(deps)
    /\ Len(order) >= 1
    /\ ready = <<>>

\* The statement binds n the way seen_defs records it.
IsBinderOf(s, n) == (IsDefinition(s) /\ s.name = n) \/ IsSimpleAssignTo(s, n)

\* The names some top-level statement of the tree binds that way.
BoundNames == DefinedNames \cup {n \in AssignedNames : Binders(n) # {}}

\* The output positions of the statements of module A that bind n.
BinderPos(A, n) == {i \in Pos : out[i].src = A /\ IsBinderOf(out[i].stmt, n)}

\* C27: the symbol table is shared between definitions and simple
\* assignments.  A function or class definition is dropped when a simple
\* assignment processed earlier bound its name, and a simple assignment is
\* dropped when a function, class or simple assignment processed earlier
\* bound its name: of all the statements that bind a name, whatever their
\* kind, the output holds the one processed first and no other.
C27_SharedSymbolTable ==
    pc = "done" =>
        \A n \in BoundNames : \A A \in KeySet(module_map) :
            IF FirstBinder(n)[1] = A
            THEN \E i \in Pos :
                   /\ BinderPos(A, n) = {i}
                   /\ out[i].stmt = body_of(module_map, A)[FirstBinder(n)[2]]
            ELSE BinderPos(A, n) = {}

\* A finished run over a tree where a simple assignment to f is processed
\* before a function f and a class f: the output holds the assignment and
\* neither definition.
C27_Witness ==
    /\ pc = "done"
    /\ Cardinality(Binders("f")) = 3
    /\ IsSimpleAssignTo(body_of(module_map, FirstBinder("f")[1])[FirstBinder("f")[2]], "f")
    /\ \E o \in Binders("f") : body_of(module_map, o[1])[o[2]].kind = "def"
    /\ \E o \in Binders("f") : body_of(module_map, o[1])[o[2]].kind = "class"
    /\ \E i \in GlobalPos : IsSimpleAssignTo(out[i].stmt, "f")
    /\ DefinitionPos("f") = {}

\* The indices of the top-level definitions of n in module A.
DefinitionsIn(A, n) ==
    {k \in 1..Len(body_of(module_map, A)) :
        /\ IsDefinition(body_of(module_map, A)[k])
        /\ body_of(module_map, A)[k].name = n}

\* C28: deduplication also applies inside one module: when a single module
\* defines the same function or class name twice at top level, only the
\* first definition is kept in the output and the later one is dropped.
C28_FirstDefinitionOfModuleKept ==
    pc = "done" =>
        \A A \in KeySet(module_map) : \A n \in DefinedNames :
            Cardinality(DefinitionsIn(A, n)) >= 2 =>
                \E i \in Pos :
                    /\ DefinitionPos(n) \cap {j \in Pos : out[j].src = A} = {i}
                    /\ out[i].stmt = body_of(module_map, A)[FirstDefinition(A, n)]

\* C28 as amended: when a single module defines the same function or class
\* name twice at top level, every definition after the first is dropped, and
\* the first is kept only when nothing processed earlier bound the name: when
\* a module earlier in the emission plan defined or assigned it, or a simple
\* assignment to it comes earlier in the module itself, none of the module's
\* definitions of the name is in the output.
C28_LaterDefinitionsDropped ==
    pc = "done" =>
        \A A \in KeySet(module_map) : \A n \in DefinedNames :
            Cardinality(DefinitionsIn(A, n)) >= 2 =>
                LET at == DefinitionPos(n) \cap {j \in Pos : out[j].src = A}
                IN  IF FirstBinder(n) = <<A, FirstDefinition(A, n)>>
                    THEN \E i \in Pos :
                           /\ at = {i}
                           /\ out[i].stmt = body_of(module_map, A)[FirstDefinition(A, n)]
                    ELSE at = {}

\* A finished run over a module that holds `def f` and then `class f`: the
\* function is in the output and the class is not.
C28_Witness ==
    /\ pc = "done"
    /\ \E A \in KeySet(module_map) :
           /\ Cardinality(DefinitionsIn(A, "f")) >= 2
           /\ body_of(module_map, A)[FirstDefinition(A, "f")].kind = "def"
           /\ \E k \in DefinitionsIn(A, "f") : body_of(module_map, A)[k].kind = "class"
           /\ \E i \in Pos : DefinitionPos("f") = {i} /\ out[i].stmt.kind = "def"

\* The top-level statements of module A after import rewriting.
Rewritten(A) == visit_remover(body_of(module_map, A))

\* The rewritten top level of every module, and every module's place in the
\* emission plan.
RewrittenTree == [A \in KeySet(module_map) |-> Rewritten(A)]
Plan == [A \in KeySet(module_map) |-> PlanIndex(A)]

\* The name statement s binds in the symbol table, "" when it binds none.
BoundName(s) ==
    IF IsDefinition(s) \/ (s.kind = "assign" /\ s.target = "name") THEN s.name ELSE ""

\* Statement k of the rewritten module A is a same-name duplicate: it binds a
\* name that a statement processed before it binds (rw is the rewritten
\* tree, pl the plan).
DroppedDuplicate(rw, pl, A, k) ==
    /\ BoundName(rw[A][k]) # ""
    /\ \E B \in DOMAIN rw : \E j \in 1..Len(rw[B]) :
           /\ pl[B] < pl[A] \/ (B = A /\ j < k)
           /\ BoundName(rw[B][j]) = BoundName(rw[A][k])

\* The statements of the rewritten module A that are neither imports nor
\* same-name duplicates, in order.
Retained(rw, pl, A) ==
    LET at == SelectSeq([k \in 1..Len(rw[A]) |-> k],
                        LAMBDA k : ~ IsImport(rw[A][k]) /\ ~ DroppedDuplicate(rw, pl, A, k))
    IN  [j \in 1..Len(at) |-> rw[A][at[j]]]

\* The statement is a single simple or annotated assignment.
IsAssignment(s) == s.kind \in {"assign", "annassign"}

\* C29: nothing is lost or duplicated by the gathering pass.  Every
\* top-level statement of every emitted module, after import rewriting, ends
\* in exactly one of four places: an import is rendered into the import
\* section and is in neither list, a same-name duplicate is in no section,
\* and of the other statements the assignments are the module's part of the
\* globals section and the rest its part of the body, each once and in order;
\* no section holds anything else.
C29_NothingLostOrDuplicated ==
    pc = "done" =>
        LET rw == RewrittenTree
            pl == Plan
        IN  /\ \A i \in GlobalPos \cup BodyPos :
                   out[i].src \in KeySet(module_map) /\ ~ IsImport(out[i].stmt)
            /\ \A i \in ImportPos :
                   \E A \in DOMAIN rw : \E k \in 1..Len(rw[A]) :
                       IsImport(rw[A][k]) /\ out[i].text = code_for_node(rw[A][k])
            /\ \A A \in DOMAIN rw :
                   LET kept == Retained(rw, pl, A)
                   IN  /\ \A k \in 1..Len(rw[A]) :
                              IsImport(rw[A][k]) =>
                                  \E i \in ImportPos : out[i].text = code_for_node(rw[A][k])
                       /\ GlobalsFrom(A) = SelectSeq(kept, IsAssignment)
                       /\ BodyFrom(A) = SelectSeq(kept, LAMBDA s : ~ IsAssignment(s))

\* A finished run over a module whose statements end in all four places:
\* `import os` in the import section, one `X = 1` in the globals section, a
\* second `X = 1` dropped, `def f` in the body.
C29_Witness ==
    /\ pc = "done"
    /\ \E A \in KeySet(module_map) :
           /\ Len(Rewritten(A)) = 4
           /\ \E k \in 1..4 : IsImport(Rewritten(A)[k])
           /\ \E k \in 1..4 : /\ DroppedDuplicate(RewrittenTree, Plan, A, k)
                              /\ IsAssignment(Rewritten(A)[k])
           /\ Len(GlobalsFrom(A)) = 1
           /\ Len(BodyFrom(A)) = 1
    /\ Cardinality(ImportPos) = 1

\* Statement s is a from-import whose source is exactly the package name.
IsFromPackage(s) == s.kind = "from" /\ s.rel = 0 /\ get_module_name(s.mod) = pkg_name

\* Module A holds `from <package> import B` at its top level.
FromPackage(A, B) ==
    \E k \in 1..Len(body_of(module_map, A)) :
        /\ IsFromPackage(body_of(module_map, A)[k])
        /\ \E j \in 1..Len(body_of(module_map, A)[k].names) :
               get_module_name(body_of(module_map, A)[k].names[j]) = B

\* Module A holds an import that names the submodule <package>.B.
SubmoduleImport(A, B) ==
    \E k \in 1..Len(body_of(module_map, A)) :
        LET s == body_of(module_map, A)[k]
        IN  \/ s.kind = "from" /\ s.rel = 0 /\ s.mod = <<pkg_name, B>>
            \/ s.kind = "import" /\ \E j \in 1..Len(s.names) : s.names[j] = <<pkg_name, B>>

\* C30: a from-import whose source is exactly the package name
\* (`from pkg import b`) is removed from the output but adds no edge to the
\* dependency graph: every edge A -> B comes from an import in A that names
\* the submodule pkg.B, no line of the output renders the statement, and the
\* emission order of the importing module and b is decided by the other
\* edges (b first when A also imports pkg.b) and, when neither module has a
\* dependency, by discovery order.
C30_FromPackageAddsNoEdge ==
    /\ \A A \in KeySet(module_map) : \A B \in deps[A] : SubmoduleImport(A, B)
    /\ \A i \in Pos :
           /\ ~ IsFromPackage(out[i].stmt)
           /\ \A A \in KeySet(module_map) : \A k \in 1..Len(body_of(module_map, A)) :
                  IsFromPackage(body_of(module_map, A)[k]) =>
                      out[i].text # code_for_node(body_of(module_map, A)[k])
    /\ pc = "done" =>
           \A A \in KeySet(module_map), B \in KeySet(module_map) :
               (A # B /\ FromPackage(A, B)) =>
                   /\ B \in deps[A] => PlanIndex(B) < PlanIndex(A)
                   /\ (deps[A] = {} /\ deps[B] = {}) =>
                          (PlanIndex(A) < PlanIndex(B) <=> Reg(A) < Reg(B))

\* A finished run over a tree where module a holds `from pkg import b` and
\* nothing else names b: a has no dependency, it is emitted before b, and
\* the output has no import line.
C30_Witness ==
    /\ pc = "done"
    /\ {<<"a">>, <<"b">>} \subseteq KeySet(module_map)
    /\ FromPackage(<<"a">>, <<"b">>)
    /\ deps[<<"a">>] = {}
    /\ PlanIndex(<<"a">>) < PlanIndex(<<"b">>)
    /\ ImportPos = {}

====
